---- MODULE Spec2Model ----
(***************************************************************************)
(* Model of the SofaRPC upstream connection pool                           *)
(* (pkg/stream/sofarpc/connpool.go).                                       *)
(*                                                                         *)
(* One pool, its background constructor goroutine (go p.init()), caller    *)
(* goroutines running NewStream, one transport goroutine delivering        *)
(* connection events to the activeClient, an observer calling Active(),    *)
(* a goroutine calling Close(), and the stream callbacks                   *)
(* OnDestroyStream / OnResetStream.  Every access to the pool's            *)
(* activeClient field is a step of its own, so that the mutex (or its      *)
(* absence) around the access is visible in the state.                     *)
(***************************************************************************)
EXTENDS Integers, Sequences, FiniteSets, TLC

\* ------------------------------------------------------------------ bounds
MaxCalls == 2      \* NewStream calls issued over a run
MaxResets == 1     \* stream resets delivered over a run
MaxRequests == 1   \* capacity of the admission budget (Requests().Max())
MaxKaEvents == 2   \* connection events delivered to the keep-alive listener

\* --------------------------------------------------------------- constants
Nil == "nil"
AC == "ac"
Free == "free"
Host == "host"
Stream == "stream"

Callers == {"c1", "c2"}
Ctor == "init"
Conn == "conn"
Closer == "closer"
Procs == {Ctor, Conn, Closer} \cup Callers

LocalClose == "LocalClose"
RemoteClose == "RemoteClose"
ConnectTimeout == "ConnectTimeout"
ConnectFailed == "ConnectFailed"
Connected == "Connected"
OnReadTimeout == "OnReadTimeout"
ConnectionEvents ==
    {LocalClose, RemoteClose, ConnectTimeout, ConnectFailed, Connected, OnReadTimeout}

StreamConnectionTermination == "StreamConnectionTermination"
StreamConnectionFailed == "StreamConnectionFailed"
StreamLocalReset == "StreamLocalReset"
StreamRemoteReset == "StreamRemoteReset"
StreamOverflow == "StreamOverflow"
StreamResetReasons ==
    {StreamConnectionTermination, StreamConnectionFailed, StreamLocalReset,
     StreamRemoteReset, StreamOverflow}

ConnectionFailure == "ConnectionFailure"
Overflow == "Overflow"

\* the calls a types.PoolEventListener can receive
OnFailure(reason, host) == <<"OnFailure", reason, host>>
OnReady(stream, host) == <<"OnReady", stream, host>>
ListenerCalls ==
    {OnFailure(r, h) : r \in {ConnectionFailure, Overflow}, h \in {Nil, Host}}
        \cup {OnReady(Stream, h) : h \in {Nil, Host}}

StatNames ==
    {"UpstreamConnectionTotal", "UpstreamConnectionActive",
     "UpstreamRequestTotal", "UpstreamRequestActive",
     "UpstreamRequestPendingOverflow", "UpstreamRequestTimeout",
     "UpstreamRequestLocalReset", "UpstreamRequestRemoteReset",
     "UpstreamRequestFailureEject",
     "UpstreamConnectionLocalCloseWithActiveRequest",
     "UpstreamConnectionRemoteCloseWithActiveRequest",
     "UpstreamConnectionConFail"}

VARIABLES
    activeClient,        \* connPool.activeClient: Nil or AC
    mux,                 \* connPool.mux: Free or the goroutine holding it
    pc,                  \* position of every goroutine
    acRet,               \* value newActiveClient returns to init
    connState,           \* the connection: "none", "created", "connected", "failed", "closed"
    connectAttempts,     \* number of Connect calls made
    connectResult,       \* outcome of Connect: "none", "ok" or "error"
    connClosed,          \* client.Close() has been called on the connection
    closeWithActiveReq,  \* activeClient.closeWithActiveReq
    totalStream,         \* activeClient.totalStream
    hostStats,           \* p.host.HostStats()
    clusterStats,        \* p.host.ClusterInfo().Stats()
    requestsCur,         \* in-use count of ResourceManager().Requests()
    openStreams,         \* streams opened on the client and not yet destroyed
    snap,                \* NewStream's local activeClient, per caller
    afterTerminal,       \* the caller's call began after a terminal event returned
    listener,            \* number of times each listener call has been made
    curEvent,            \* terminal event being handled by onConnectionEvent
    acHist,              \* history of the field: "never", "installed", "cleared", "reinstalled"
    activeRet,           \* last result of Active(): "none", "true" or "false"
    closeFault,          \* Close() dereferenced a nil activeClient
    calls,               \* NewStream calls issued
    resets,              \* stream resets delivered
    ctxSubProtocol,      \* newActiveClient's ctx carries a sub-protocol byte
    keepAlive,           \* activeClient.keepAlive: "nil" or "started"
    kaReceived,          \* connection events the keep-alive listener received
    probes               \* SendKeepAlive calls made

vars ==
    <<activeClient, mux, pc, acRet, connState, connectAttempts, connectResult, connClosed,
      closeWithActiveReq, totalStream, hostStats, clusterStats, requestsCur,
      openStreams, snap, afterTerminal, listener, curEvent, acHist, activeRet,
      closeFault, calls, resets, ctxSubProtocol, keepAlive, kaReceived, probes>>

ctorVars == <<acRet, connState, connectAttempts, connectResult>>
clientVars == <<closeWithActiveReq, totalStream>>
statVars == <<hostStats, clusterStats>>
callerVars == <<snap, afterTerminal, listener, calls>>
closeVars == <<connClosed, closeFault>>
kaVars == <<ctxSubProtocol, keepAlive, kaReceived, probes>>

\* ----------------------------------------------------------------- helpers
Inc(stats, name, n) == [stats EXCEPT ![name] = @ + n]
Dec(stats, name, n) == [stats EXCEPT ![name] = @ - n]

\* history of the activeClient field after a write of value v
FieldHist(v) ==
    IF v = AC
    THEN (IF acHist \in {"cleared", "reinstalled"} THEN "reinstalled" ELSE "installed")
    ELSE (IF acHist \in {"installed", "reinstalled"} THEN "cleared" ELSE acHist)

Goto(p, label) == pc' = [pc EXCEPT ![p] = label]

\* onConnectionEvent has returned for a terminal event
TerminalDone == connState = "closed" /\ pc[Conn] = "idle"

\* -------------------------------------------------------------------- Init
\* the pool when its constructor goroutine is scheduled and has not run
PoolInit ==
    /\ activeClient = Nil
    /\ mux = Free
    /\ pc = [p \in Procs |-> IF p = Ctor THEN "start" ELSE "idle"]
    /\ acRet = Nil
    /\ connState = "none"
    /\ connectAttempts = 0
    /\ connectResult = "none"
    /\ connClosed = FALSE
    /\ closeWithActiveReq = FALSE
    /\ totalStream = 0
    /\ hostStats = [n \in StatNames |-> 0]
    /\ clusterStats = [n \in StatNames |-> 0]
    /\ requestsCur = 0
    /\ openStreams = 0
    /\ snap = [c \in Callers |-> Nil]
    /\ afterTerminal = [c \in Callers |-> FALSE]
    /\ listener = [l \in ListenerCalls |-> 0]
    /\ curEvent = "none"
    /\ acHist = "never"
    /\ activeRet = "none"
    /\ closeFault = FALSE
    /\ calls = 0
    /\ resets = 0
    /\ keepAlive = "nil"
    /\ kaReceived = 0
    /\ probes = 0

\* the state when NewConnPool has returned: go p.init() is scheduled, not run;
\* init passes context.Background(), which carries no sub-protocol
Init == PoolInit /\ ctxSubProtocol = FALSE

\* the same pool built by newActiveClient(ctx, pool) with a ctx that carries
\* a sub-protocol byte
InitKA == PoolInit /\ ctxSubProtocol = TRUE

\* a write of v to p.activeClient, with the field's history
WriteField(v) ==
    /\ activeClient' = v
    /\ acHist' = FieldHist(v)

\* ------------------------------------------- init / newActiveClient (ctor)
\* mutant: the constructor takes the pool's mutex before it connects
CreateConnectionLocked ==
    /\ pc[Ctor] = "start"
    /\ mux = Free
    /\ mux' = Ctor
    /\ connState' = "created"
    /\ Goto(Ctor, "connect")
    /\ UNCHANGED <<activeClient, acHist, acRet, connectAttempts, connectResult,
                   clientVars, statVars, requestsCur, openStreams, callerVars,
                   curEvent, activeRet, closeVars, resets, kaVars>>

\* newActiveClient: allocate ac, host.CreateConnection, createStreamClient,
\* register ac as connection and stream-connection listener
CreateConnection ==
    /\ pc[Ctor] = "start"
    /\ connState' = "created"
    /\ Goto(Ctor, "connect")
    /\ UNCHANGED <<activeClient, acHist, mux, acRet, connectAttempts, connectResult,
                   clientVars, statVars, requestsCur, openStreams, callerVars,
                   curEvent, activeRet, closeVars, resets, kaVars>>

\* mutant: the error of Connect is ignored and construction goes on
AfterConnectErrorContinue == "stats"

\* where newActiveClient continues when Connect returned an error: it returns nil
AfterConnectError == "init_store"

\* ac.host.Connection.Connect(true) succeeds
ConnectOk ==
    /\ pc[Ctor] = "connect"
    /\ connState' = "connected"
    /\ connectAttempts' = connectAttempts + 1
    /\ connectResult' = "ok"
    /\ Goto(Ctor, "stats")
    /\ UNCHANGED <<activeClient, acHist, mux, acRet, clientVars, statVars,
                   requestsCur, openStreams, callerVars, curEvent, activeRet,
                   closeVars, resets, kaVars>>

\* ac.host.Connection.Connect(true) returns an error: return nil
ConnectFail ==
    /\ pc[Ctor] = "connect"
    /\ connState' = "failed"
    /\ connectAttempts' = connectAttempts + 1
    /\ connectResult' = "error"
    /\ acRet' = Nil
    /\ Goto(Ctor, AfterConnectError)
    /\ UNCHANGED <<activeClient, acHist, mux, clientVars, statVars, requestsCur,
                   openStreams, callerVars, curEvent, activeRet, closeVars, resets, kaVars>>

\* mutant: connection-total is not counted
ConnectionStatsNoTotal(stats) == Inc(stats, "UpstreamConnectionActive", 1)

\* the connection counters of a successful construction
ConnectionStats(stats) ==
    Inc(Inc(stats, "UpstreamConnectionTotal", 1), "UpstreamConnectionActive", 1)

\* mutant: the keep-alive is started whatever the ctx carries
KeepAliveForAlways(sub) == "started"

\* newActiveClient: ac.keepAlive after the keep-alive block, for a ctx that
\* carries a sub-protocol byte (sub) or does not
KeepAliveFor(sub) == IF sub THEN "started" ELSE "nil"

\* newActiveClient: keep-alive, stats, SetConnectionStats
ConnStats ==
    /\ pc[Ctor] = "stats"
    /\ keepAlive' = KeepAliveFor(ctxSubProtocol)
    /\ hostStats' = ConnectionStats(hostStats)
    /\ clusterStats' = ConnectionStats(clusterStats)
    /\ Goto(Ctor, "lock")
    /\ UNCHANGED <<activeClient, acHist, mux, ctorVars, clientVars, requestsCur,
                   openStreams, callerVars, curEvent, activeRet, closeVars, resets,
                   ctxSubProtocol, kaReceived, probes>>

\* newActiveClient: pool.mux.Lock()
PublishLock ==
    /\ pc[Ctor] = "lock"
    /\ mux = Free
    /\ mux' = Ctor
    /\ Goto(Ctor, "publish")
    /\ UNCHANGED <<activeClient, acHist, ctorVars, clientVars, statVars, requestsCur,
                   openStreams, callerVars, curEvent, activeRet, closeVars, resets, kaVars>>

\* newActiveClient: pool.activeClient = ac; pool.mux.Unlock(); return ac
Publish ==
    /\ pc[Ctor] = "publish"
    /\ mux = Ctor
    /\ WriteField(AC)
    /\ mux' = Free
    /\ acRet' = AC
    /\ Goto(Ctor, "init_store")
    /\ UNCHANGED <<connState, connectAttempts, connectResult, clientVars, statVars,
                   requestsCur, openStreams, callerVars, curEvent, activeRet,
                   closeVars, resets, kaVars>>

\* init: p.activeClient = <value returned by newActiveClient>, without the mutex
InitStore ==
    /\ pc[Ctor] = "init_store"
    /\ WriteField(acRet)
    /\ Goto(Ctor, "done")
    /\ UNCHANGED <<mux, ctorVars, clientVars, statVars, requestsCur, openStreams,
                   callerVars, curEvent, activeRet, closeVars, resets, kaVars>>

\* ------------------------------------------------- admission budget (host)
\* ResourceManager().Requests(): CanCreate, Increase, Decrease
CanCreate == requestsCur < MaxRequests
Increase(n) == n + 1
Decrease(n) == n - 1

\* mutant: the callback is made twice
NotifyTwice(l, call) == [l EXCEPT ![call] = @ + 2]

\* --------------------------------------------------------------- NewStream
\* the listener after one more call of it
Notify(l, call) == [l EXCEPT ![call] = @ + 1]

\* NewStream: p.mux.Lock(); activeClient := p.activeClient; p.mux.Unlock()
NewStreamSnapshot(c) ==
    /\ pc[c] = "idle"
    /\ calls < MaxCalls
    /\ mux = Free
    /\ calls' = calls + 1
    /\ snap' = [snap EXCEPT ![c] = activeClient]
    /\ afterTerminal' = [afterTerminal EXCEPT ![c] = TerminalDone]
    /\ Goto(c, "ns_check")
    /\ UNCHANGED <<activeClient, acHist, mux, ctorVars, clientVars, statVars,
                   requestsCur, openStreams, listener, curEvent, activeRet,
                   closeVars, resets, kaVars>>

\* the caller's locals when NewStream returns
Return(c) ==
    /\ snap' = [snap EXCEPT ![c] = Nil]
    /\ afterTerminal' = [afterTerminal EXCEPT ![c] = FALSE]
    /\ Goto(c, "idle")

\* mutant: the failure is reported with the pool's host
NoClientNotifyHost(l) == Notify(l, OnFailure(ConnectionFailure, Host))

\* what NewStream reports when its snapshot is nil
NoClientNotify(l) == Notify(l, OnFailure(ConnectionFailure, Nil))

\* NewStream: activeClient == nil: listener.OnFailure(ConnectionFailure, nil); return
NewStreamNoClient(c) ==
    /\ pc[c] = "ns_check"
    /\ snap[c] = Nil
    /\ listener' = NoClientNotify(listener)
    /\ Return(c)
    /\ UNCHANGED <<activeClient, acHist, mux, ctorVars, clientVars, statVars,
                   requestsCur, openStreams, calls, curEvent, activeRet,
                   closeVars, resets, kaVars>>

\* NewStream: the branch on Requests().CanCreate()
NewStreamCanCreate(c) ==
    /\ pc[c] = "ns_check"
    /\ snap[c] # Nil
    /\ Goto(c, IF CanCreate THEN "ns_admit" ELSE "ns_overflow")
    /\ UNCHANGED <<activeClient, acHist, mux, ctorVars, clientVars, statVars,
                   requestsCur, openStreams, callerVars, curEvent, activeRet,
                   closeVars, resets, kaVars>>

\* mutant: a refused request is counted as active too
OverflowStatsAndActive(stats) ==
    Inc(Inc(stats, "UpstreamRequestPendingOverflow", 1), "UpstreamRequestActive", 1)

\* the counters of a refused request
OverflowStats(stats) == Inc(stats, "UpstreamRequestPendingOverflow", 1)

\* NewStream: OnFailure(Overflow, nil) and the pending-overflow counters
NewStreamOverflow(c) ==
    /\ pc[c] = "ns_overflow"
    /\ listener' = Notify(listener, OnFailure(Overflow, Nil))
    /\ hostStats' = OverflowStats(hostStats)
    /\ clusterStats' = OverflowStats(clusterStats)
    /\ Return(c)
    /\ UNCHANGED <<activeClient, acHist, mux, ctorVars, clientVars, requestsCur,
                   openStreams, calls, curEvent, activeRet, closeVars, resets, kaVars>>

\* mutant: request-total is forgotten
AdmitStatsNoTotal(stats) == Inc(stats, "UpstreamRequestActive", 1)

\* the counters of an admitted request
AdmitStats(stats) ==
    Inc(Inc(stats, "UpstreamRequestTotal", 1), "UpstreamRequestActive", 1)

\* NewStream: totalStream, request counters and Requests().Increase()
NewStreamAdmit(c) ==
    /\ pc[c] = "ns_admit"
    /\ totalStream' = totalStream + 1
    /\ hostStats' = AdmitStats(hostStats)
    /\ clusterStats' = AdmitStats(clusterStats)
    /\ requestsCur' = Increase(requestsCur)
    /\ Goto(c, "ns_open")
    /\ UNCHANGED <<activeClient, acHist, mux, ctorVars, closeWithActiveReq,
                   openStreams, callerVars, curEvent, activeRet, closeVars, resets, kaVars>>

\* NewStream: client.NewStream and AddEventListener(activeClient)
NewStreamOpen(c) ==
    /\ pc[c] = "ns_open"
    /\ openStreams' = openStreams + 1
    /\ Goto(c, "ns_ready")
    /\ UNCHANGED <<activeClient, acHist, mux, ctorVars, clientVars, statVars,
                   requestsCur, callerVars, curEvent, activeRet, closeVars, resets, kaVars>>

\* NewStream: listener.OnReady(streamEncoder, p.host)
NewStreamReady(c) ==
    /\ pc[c] = "ns_ready"
    /\ listener' = Notify(listener, OnReady(Stream, Host))
    /\ Return(c)
    /\ UNCHANGED <<activeClient, acHist, mux, ctorVars, clientVars, statVars,
                   requestsCur, openStreams, calls, curEvent, activeRet,
                   closeVars, resets, kaVars>>

\* ------------------------------------------------------- connection events
\* types.ConnectionEvent.IsClose
IsClose(event) == event \in {LocalClose, RemoteClose}

\* the events onConnectionEvent answers by clearing p.activeClient
IsTerminal(event) == IsClose(event) \/ event = ConnectTimeout \/ event = ConnectFailed

\* the events the transport can deliver to the registered listener: a failed
\* connect reports its cause, a live connection reports activity and its close;
\* a connection delivers one terminal event
Deliverable ==
    IF connState = "connected" THEN {Connected, OnReadTimeout, LocalClose, RemoteClose}
    ELSE IF connState = "failed" THEN {ConnectFailed, ConnectTimeout}
    ELSE {}

\* mutant: closeWithActiveReq is not consulted
CloseStatsAlways(stats, event, flag) ==
    IF event = LocalClose
    THEN Inc(stats, "UpstreamConnectionLocalCloseWithActiveRequest", 1)
    ELSE IF event = RemoteClose
    THEN Inc(stats, "UpstreamConnectionRemoteCloseWithActiveRequest", 1)
    ELSE stats

\* onConnectionEvent: the counters of a close event
CloseStats(stats, event, flag) ==
    IF flag /\ event = LocalClose
    THEN Inc(stats, "UpstreamConnectionLocalCloseWithActiveRequest", 1)
    ELSE IF flag /\ event = RemoteClose
    THEN Inc(stats, "UpstreamConnectionRemoteCloseWithActiveRequest", 1)
    ELSE stats

\* mutant: the counters of the two connect failures are exchanged
EventStatsSwapped(stats, event, flag) ==
    IF event = ConnectTimeout THEN Inc(stats, "UpstreamConnectionConFail", 1)
    ELSE IF event = ConnectFailed THEN Inc(stats, "UpstreamRequestTimeout", 1)
    ELSE stats

\* onConnectionEvent: the counters of any event
EventStats(stats, event, flag) ==
    IF IsClose(event) THEN CloseStats(stats, event, flag)
    ELSE IF event = ConnectTimeout THEN Inc(stats, "UpstreamRequestTimeout", 1)
    ELSE IF event = ConnectFailed THEN Inc(stats, "UpstreamConnectionConFail", 1)
    ELSE stats

\* activeClient.OnEvent -> onConnectionEvent, up to the write of p.activeClient;
\* an event of no branch returns at once
ConnEventBegin(event) ==
    /\ pc[Conn] = "idle"
    /\ event \in Deliverable
    /\ hostStats' = EventStats(hostStats, event, closeWithActiveReq)
    /\ clusterStats' = EventStats(clusterStats, event, closeWithActiveReq)
    /\ connClosed' = IF event = ConnectTimeout THEN TRUE ELSE connClosed
    /\ curEvent' = IF IsTerminal(event) THEN event ELSE "none"
    /\ connState' = IF IsTerminal(event) THEN "closed" ELSE connState
    /\ Goto(Conn, IF IsTerminal(event) THEN "evt_clear" ELSE "idle")
    /\ UNCHANGED <<activeClient, acHist, mux, acRet, connectAttempts, connectResult,
                   clientVars, requestsCur, openStreams, callerVars, activeRet,
                   closeFault, resets, kaVars>>

\* the value onConnectionEvent leaves in p.activeClient
ClearedClient == Nil

\* onConnectionEvent: p.activeClient = nil, without the mutex; return
ConnEventClear ==
    /\ pc[Conn] = "evt_clear"
    /\ WriteField(ClearedClient)
    /\ curEvent' = "none"
    /\ Goto(Conn, "idle")
    /\ UNCHANGED <<mux, ctorVars, clientVars, statVars, requestsCur, openStreams,
                   callerVars, activeRet, closeVars, resets, kaVars>>

\* ---------------------------------------------------------- stream events
\* mutant: request-total is decreased instead of request-active
DestroyStatsTotal(stats) == Dec(stats, "UpstreamRequestTotal", 1)

\* onStreamDestroy: the request-active counters
DestroyStats(stats) == Dec(stats, "UpstreamRequestActive", 1)

\* activeClient.OnDestroyStream -> onStreamDestroy
OnDestroyStream ==
    /\ openStreams > 0
    /\ openStreams' = openStreams - 1
    /\ hostStats' = DestroyStats(hostStats)
    /\ clusterStats' = DestroyStats(clusterStats)
    /\ requestsCur' = Decrease(requestsCur)
    /\ UNCHANGED <<activeClient, acHist, mux, pc, ctorVars, clientVars, callerVars,
                   curEvent, activeRet, closeVars, resets, kaVars>>

\* onStreamReset: the counters of a reset reason
ResetStats(stats, reason) ==
    IF reason \in {StreamConnectionTermination, StreamConnectionFailed}
    THEN Inc(stats, "UpstreamRequestFailureEject", 1)
    ELSE IF reason = StreamLocalReset THEN Inc(stats, "UpstreamRequestLocalReset", 1)
    ELSE IF reason = StreamRemoteReset THEN Inc(stats, "UpstreamRequestRemoteReset", 1)
    ELSE stats

\* mutant: every reset sets closeWithActiveReq
ResetFlagAlways(flag, reason) == TRUE

\* onStreamReset: client.closeWithActiveReq after a reset
ResetFlag(flag, reason) ==
    IF reason \in {StreamConnectionTermination, StreamConnectionFailed} THEN TRUE ELSE flag

\* activeClient.OnResetStream -> onStreamReset
OnResetStream(reason) ==
    /\ openStreams > 0
    /\ resets < MaxResets
    /\ resets' = resets + 1
    /\ hostStats' = ResetStats(hostStats, reason)
    /\ clusterStats' = ResetStats(clusterStats, reason)
    /\ closeWithActiveReq' = ResetFlag(closeWithActiveReq, reason)
    /\ UNCHANGED <<activeClient, acHist, mux, pc, ctorVars, totalStream, requestsCur,
                   openStreams, callerVars, curEvent, activeRet, closeVars, kaVars>>

\* ------------------------------------------------------------------ Active
\* Active: the result for a value of the field
ActiveResult(client) == IF client # Nil THEN "true" ELSE "false"

\* Active: lock, read p.activeClient, unlock (deferred), return
Active ==
    /\ mux = Free
    /\ activeRet' = ActiveResult(activeClient)
    /\ UNCHANGED <<activeClient, acHist, mux, pc, ctorVars, clientVars, statVars,
                   requestsCur, openStreams, callerVars, curEvent, closeVars, resets, kaVars>>

\* ------------------------------------------------------------------- Close
\* Close: if p.activeClient != nil, without the mutex
CloseCheck ==
    /\ pc[Closer] = "idle"
    /\ Goto(Closer, IF activeClient # Nil THEN "close_use" ELSE "idle")
    /\ UNCHANGED <<activeClient, acHist, mux, ctorVars, clientVars, statVars,
                   requestsCur, openStreams, callerVars, curEvent, activeRet,
                   closeVars, resets, kaVars>>

\* mutant: Close also clears the field
CloseUseClears ==
    /\ pc[Closer] = "close_use"
    /\ IF activeClient # Nil
       THEN connClosed' = TRUE /\ UNCHANGED closeFault
       ELSE closeFault' = TRUE /\ UNCHANGED connClosed
    /\ Goto(Closer, "idle")
    /\ activeClient' = Nil
    /\ UNCHANGED <<acHist, mux, ctorVars, clientVars, statVars,
                   requestsCur, openStreams, callerVars, curEvent, activeRet, resets, kaVars>>

\* Close: p.activeClient.client.Close(), a second read without the mutex
CloseUse ==
    /\ pc[Closer] = "close_use"
    /\ IF activeClient # Nil
       THEN connClosed' = TRUE /\ UNCHANGED closeFault
       ELSE closeFault' = TRUE /\ UNCHANGED connClosed
    /\ Goto(Closer, "idle")
    /\ UNCHANGED <<activeClient, acHist, mux, ctorVars, clientVars, statVars,
                   requestsCur, openStreams, callerVars, curEvent, activeRet, resets, kaVars>>

\* ---------------------------------------------------------- specification
Next ==
    \/ CreateConnection
    \/ ConnectOk
    \/ ConnectFail
    \/ ConnStats
    \/ PublishLock
    \/ Publish
    \/ InitStore
    \/ \E c \in Callers : NewStreamSnapshot(c)
    \/ \E c \in Callers : NewStreamNoClient(c)
    \/ \E c \in Callers : NewStreamCanCreate(c)
    \/ \E c \in Callers : NewStreamOverflow(c)
    \/ \E c \in Callers : NewStreamAdmit(c)
    \/ \E c \in Callers : NewStreamOpen(c)
    \/ \E c \in Callers : NewStreamReady(c)
    \/ \E event \in ConnectionEvents : ConnEventBegin(event)
    \/ ConnEventClear
    \/ OnDestroyStream
    \/ \E reason \in StreamResetReasons : OnResetStream(reason)
    \/ Active
    \/ CloseCheck
    \/ CloseUse

Spec == Init /\ [][Next]_vars

\* ----------------------------------------------------- keep-alive listener
\* mutant: a probe is sent for every event
KeepAliveSendsAlways(event) == 1

\* keepAliveListener.OnEvent: the number of SendKeepAlive calls for an event
KeepAliveSends(event) == IF event = OnReadTimeout THEN 1 ELSE 0

\* keepAliveListener.OnEvent, for a listener registered on the connection
KeepAliveOnEvent(event) ==
    /\ keepAlive = "started"
    /\ kaReceived < MaxKaEvents
    /\ kaReceived' = kaReceived + 1
    /\ probes' = probes + KeepAliveSends(event)
    /\ UNCHANGED <<activeClient, acHist, mux, pc, ctorVars, clientVars, statVars,
                   requestsCur, openStreams, callerVars, curEvent, activeRet,
                   closeVars, resets, ctxSubProtocol, keepAlive>>

\* the constructor, the connection's events and the keep-alive listener of a
\* pool whose client is built with a sub-protocol ctx
NextKA ==
    \/ CreateConnection
    \/ ConnectOk
    \/ ConnectFail
    \/ ConnStats
    \/ PublishLock
    \/ Publish
    \/ InitStore
    \/ \E event \in ConnectionEvents : ConnEventBegin(event)
    \/ ConnEventClear
    \/ \E event \in ConnectionEvents : KeepAliveOnEvent(event)
    \/ Active
    \/ CloseCheck
    \/ CloseUse

SpecKA == InitKA /\ [][NextKA]_vars

\* the pool built with either ctx: init's context.Background() or a ctx that
\* carries a sub-protocol byte
InitCtx == PoolInit /\ ctxSubProtocol \in BOOLEAN

SpecCtx == InitCtx /\ [][Next]_vars

TypeOK ==
    /\ activeClient \in {Nil, AC}
    /\ mux \in {Free, Ctor}
    /\ acRet \in {Nil, AC}
    /\ connState \in {"none", "created", "connected", "failed", "closed"}
    /\ openStreams \in 0 .. MaxCalls
    /\ totalStream \in 0 .. MaxCalls
    /\ snap \in [Callers -> {Nil, AC}]
    /\ acHist \in {"never", "installed", "cleared", "reinstalled"}
    /\ activeRet \in {"none", "true", "false"}
    /\ ctxSubProtocol \in BOOLEAN
    /\ keepAlive \in {"nil", "started"}
    /\ kaReceived \in 0 .. MaxKaEvents
    /\ probes \in 0 .. MaxKaEvents

\* ------------------------------------------------------------------ claims
\* the positions at which a goroutine is about to access p.activeClient, and
\* those at which the access is a write
AccessLabels == {"publish", "init_store", "evt_clear", "close_use"}
WriteLabels == {"publish", "init_store", "evt_clear"}

\* two goroutines are about to access p.activeClient, one of them to write it
DataRace ==
    \E p, q \in Procs : p # q /\ pc[p] \in WriteLabels /\ pc[q] \in AccessLabels

\* C1: once onConnectionEvent has returned for a terminal event, Active()
\* returns false and every NewStream call begun afterwards snapshots no client
\* and so ends in OnFailure(ConnectionFailure, nil)
C1_DeadAfterTerminalEvent ==
    /\ TerminalDone => ActiveResult(activeClient) = "false"
    /\ \A c \in Callers : afterTerminal[c] => (pc[c] = "ns_check" /\ snap[c] = Nil)

\* C2: once activeClient has been installed and then cleared, it is never
\* installed again
C2_ClearedIsOneWay == acHist # "reinstalled"

\* C3: no state has two goroutines about to access p.activeClient, one of
\* them writing, unless the mutex serialises them
C3_NoDataRace == ~DataRace

\* caller c takes a step of its NewStream call
Steps(c) == pc'[c] # pc[c]

CF == OnFailure(ConnectionFailure, Nil)
OV == OnFailure(Overflow, Nil)
RDY == OnReady(Stream, Host)

\* C4: a NewStream call whose snapshot is nil invokes
\* OnFailure(ConnectionFailure, nil) once, returns, and changes no counter,
\* no totalStream, no budget unit and opens no stream
C4_NoClientOnlyFails ==
    [][\A c \in Callers :
          (pc[c] = "ns_check" /\ snap[c] = Nil /\ Steps(c)) =>
              /\ pc'[c] = "idle"
              /\ listener' = [listener EXCEPT ![CF] = @ + 1]
              /\ UNCHANGED <<hostStats, clusterStats, totalStream, requestsCur,
                             openStreams, activeClient, closeWithActiveReq>>]_vars

C4_Witness ==
    /\ listener[CF] = 1
    /\ \A c \in Callers : pc[c] = "idle"
    /\ \A n \in StatNames : hostStats[n] = 0 /\ clusterStats[n] = 0

\* C5: a NewStream call with a client and CanCreate() false invokes
\* OnFailure(Overflow, nil), adds 1 to the host and the cluster
\* pending-overflow counter and changes nothing else; the overflow counters
\* equal the number of such calls
C5_OverflowOnlyCounts ==
    /\ [](/\ hostStats["UpstreamRequestPendingOverflow"] = listener[OV]
          /\ clusterStats["UpstreamRequestPendingOverflow"] = listener[OV])
    /\ [][\A c \in Callers :
            /\ (pc[c] = "ns_check" /\ snap[c] # Nil /\ ~CanCreate /\ Steps(c)) =>
                  /\ pc'[c] = "ns_overflow"
                  /\ UNCHANGED <<listener, hostStats, clusterStats, totalStream,
                                 requestsCur, openStreams>>
            /\ (pc[c] = "ns_overflow" /\ Steps(c)) =>
                  /\ pc'[c] = "idle"
                  /\ listener' = [listener EXCEPT ![OV] = @ + 1]
                  /\ hostStats' =
                        [hostStats EXCEPT !["UpstreamRequestPendingOverflow"] = @ + 1]
                  /\ clusterStats' =
                        [clusterStats EXCEPT !["UpstreamRequestPendingOverflow"] = @ + 1]
                  /\ UNCHANGED <<totalStream, requestsCur, openStreams>>]_vars

C5_Witness ==
    /\ listener[OV] = 1
    /\ hostStats["UpstreamRequestPendingOverflow"] = 1
    /\ hostStats["UpstreamRequestActive"] = 1
    /\ requestsCur = 1

\* the request counters after one admission
Admitted(stats) ==
    [stats EXCEPT !["UpstreamRequestTotal"] = @ + 1, !["UpstreamRequestActive"] = @ + 1]

\* C6: an admitted NewStream call adds 1 to request-total and request-active
\* (host and cluster), to totalStream and to the budget's in-use count, then
\* opens one stream with the client as listener, then invokes OnReady(stream, host)
C6_AdmittedCounts ==
    [][\A c \in Callers :
          /\ (pc[c] = "ns_check" /\ snap[c] # Nil /\ CanCreate /\ Steps(c)) =>
                /\ pc'[c] = "ns_admit"
                /\ UNCHANGED <<listener, hostStats, clusterStats, totalStream,
                               requestsCur, openStreams>>
          /\ (pc[c] = "ns_admit" /\ Steps(c)) =>
                /\ pc'[c] = "ns_open"
                /\ hostStats' = Admitted(hostStats)
                /\ clusterStats' = Admitted(clusterStats)
                /\ totalStream' = totalStream + 1
                /\ requestsCur' = requestsCur + 1
                /\ UNCHANGED <<listener, openStreams>>
          /\ (pc[c] = "ns_open" /\ Steps(c)) =>
                /\ pc'[c] = "ns_ready"
                /\ openStreams' = openStreams + 1
                /\ UNCHANGED <<listener, hostStats, clusterStats, totalStream,
                               requestsCur>>
          /\ (pc[c] = "ns_ready" /\ Steps(c)) =>
                /\ pc'[c] = "idle"
                /\ listener' = [listener EXCEPT ![RDY] = @ + 1]
                /\ UNCHANGED <<hostStats, clusterStats, totalStream, requestsCur,
                               openStreams>>]_vars

C6_Witness ==
    /\ listener[RDY] = 1
    /\ hostStats["UpstreamRequestActive"] = 1
    /\ clusterStats["UpstreamRequestTotal"] = 1
    /\ totalStream = 1
    /\ requestsCur = 1
    /\ openStreams = 1

\* streams created and not yet destroyed: the open ones and those whose
\* admission is counted and whose substream is being opened
InFlight == openStreams + Cardinality({c \in Callers : pc[c] = "ns_open"})

\* C7: in every state the request-active counters and the budget's in-use
\* count equal the number of streams created and not yet destroyed, are never
\* negative, and so are back at their start when every stream is destroyed
C7_CreateDestroyCancel ==
    /\ InFlight >= 0
    /\ hostStats["UpstreamRequestActive"] = InFlight
    /\ clusterStats["UpstreamRequestActive"] = InFlight
    /\ requestsCur = InFlight

C7_Witness ==
    /\ hostStats["UpstreamRequestTotal"] = MaxCalls
    /\ listener[RDY] = MaxCalls
    /\ openStreams = 0
    /\ hostStats["UpstreamRequestActive"] = 0
    /\ requestsCur = 0

\* the constructor has not yet reached the publication of the client
BeforePublish == pc[Ctor] \in {"start", "connect", "stats", "lock"}

\* NewStream calls that have returned
Completed == calls - Cardinality({c \in Callers : pc[c] # "idle"})

\* C8: while the connection is being created or connected the constructor
\* holds no mutex, so NewStream can take its snapshot at once; every call made
\* so far has snapshotted nil and every call that returned has reported
\* OnFailure(ConnectionFailure, nil); a call with a nil snapshot can only
\* return that failure, whatever the constructor does later
C8_NewStreamNeverWaits ==
    /\ BeforePublish =>
          /\ mux = Free
          /\ \A c \in Callers :
                /\ pc[c] \in {"idle", "ns_check"}
                /\ snap[c] = Nil
                /\ (pc[c] = "idle" /\ calls < MaxCalls) => ENABLED NewStreamSnapshot(c)
          /\ listener[CF] = Completed
          /\ \A l \in ListenerCalls \ {CF} : listener[l] = 0
    /\ \A c \in Callers :
          (pc[c] # "idle" /\ snap[c] = Nil) =>
              (pc[c] = "ns_check" /\ ENABLED NewStreamNoClient(c))

C8_Witness ==
    /\ pc[Ctor] = "connect"
    /\ listener[CF] = 1
    /\ \E c \in Callers : pc[c] = "ns_check"

\* C9: after a failed Connect no client is ever installed, Active() is never
\* true, every NewStream call reports ConnectionFailure, there is one connect
\* attempt, and connection-total and connection-active stay 0
C9_FailedConnectStaysDead ==
    connectResult = "error" =>
        /\ activeClient = Nil
        /\ acHist = "never"
        /\ activeRet # "true"
        /\ connectAttempts = 1
        /\ \A c \in Callers : snap[c] = Nil /\ pc[c] \in {"idle", "ns_check"}
        /\ \A l \in ListenerCalls \ {CF} : listener[l] = 0
        /\ listener[CF] = Completed
        /\ hostStats["UpstreamConnectionTotal"] = 0
        /\ hostStats["UpstreamConnectionActive"] = 0
        /\ clusterStats["UpstreamConnectionTotal"] = 0
        /\ clusterStats["UpstreamConnectionActive"] = 0

C9_Witness ==
    /\ connectResult = "error"
    /\ pc[Ctor] = "done"
    /\ connState = "closed"
    /\ listener[CF] = MaxCalls
    /\ activeRet = "false"

\* the close-with-active-request counter of a close event
CloseCounter(event) ==
    IF event = LocalClose
    THEN "UpstreamConnectionLocalCloseWithActiveRequest"
    ELSE "UpstreamConnectionRemoteCloseWithActiveRequest"

\* onConnectionEvent starts handling a LocalClose or RemoteClose
CloseDelivered ==
    pc[Conn] = "idle" /\ pc'[Conn] = "evt_clear" /\ IsClose(curEvent')

\* onConnectionEvent returns
EventReturns == pc[Conn] = "evt_clear" /\ pc'[Conn] = "idle"

\* C10 as stated: a close event delivered with an outstanding stream adds 1
\* to the matching close-with-active-request counters, one delivered with none
\* changes no counter, and activeClient is cleared
C10_CloseCountsOutstanding ==
    [][/\ CloseDelivered =>
             IF openStreams > 0
             THEN /\ hostStats' = [hostStats EXCEPT ![CloseCounter(curEvent')] = @ + 1]
                  /\ clusterStats' =
                        [clusterStats EXCEPT ![CloseCounter(curEvent')] = @ + 1]
             ELSE UNCHANGED <<hostStats, clusterStats>>
       /\ EventReturns => activeClient' = Nil]_vars

\* C10 amended: a close event delivered while closeWithActiveReq is set (a
\* stream was reset with ConnectionTermination or ConnectionFailed) adds 1 to
\* the matching close-with-active-request counters, one delivered while it is
\* not set changes no counter, and activeClient is cleared
C10_CloseCountsFlag ==
    [][/\ CloseDelivered =>
             IF closeWithActiveReq
             THEN /\ hostStats' = [hostStats EXCEPT ![CloseCounter(curEvent')] = @ + 1]
                  /\ clusterStats' =
                        [clusterStats EXCEPT ![CloseCounter(curEvent')] = @ + 1]
             ELSE UNCHANGED <<hostStats, clusterStats>>
       /\ EventReturns => activeClient' = Nil]_vars

C10_Witness ==
    /\ pc[Conn] = "idle"
    /\ connState = "closed"
    /\ closeWithActiveReq
    /\ activeClient = Nil
    /\ hostStats["UpstreamConnectionRemoteCloseWithActiveRequest"] = 1
    /\ clusterStats["UpstreamConnectionRemoteCloseWithActiveRequest"] = 1

\* ------------------------------------------------------------------- C11
ZeroStats == [n \in StatNames |-> 0]

\* the counters when only counter name has been increased, once
OnlyCounted(stats, name) == stats = Inc(ZeroStats, name, 1)

\* C11: after a failed Connect the event ConnectTimeout adds 1 to the host and
\* cluster request-timeout counters and force-closes the connection, the event
\* ConnectFailed adds 1 to the host and cluster connection-failure counters and
\* does not close it; no other counter changes, and activeClient is nil when
\* the handler has returned
C11_ConnectFailureEvents ==
    connectResult = "error" =>
        /\ connState = "failed" =>
              hostStats = ZeroStats /\ clusterStats = ZeroStats /\ ~connClosed
        /\ connState = "closed" =>
              \/ /\ curEvent \in {ConnectTimeout, "none"}
                 /\ OnlyCounted(hostStats, "UpstreamRequestTimeout")
                 /\ OnlyCounted(clusterStats, "UpstreamRequestTimeout")
                 /\ connClosed
              \/ /\ curEvent \in {ConnectFailed, "none"}
                 /\ OnlyCounted(hostStats, "UpstreamConnectionConFail")
                 /\ OnlyCounted(clusterStats, "UpstreamConnectionConFail")
                 /\ ~connClosed
        /\ TerminalDone => activeClient = Nil

C11_Witness ==
    /\ connectResult = "error"
    /\ TerminalDone
    /\ connClosed
    /\ hostStats["UpstreamRequestTimeout"] = 1
    /\ clusterStats["UpstreamRequestTimeout"] = 1
    /\ activeClient = Nil

\* ------------------------------------------------------------------- C12
\* the counter a reset reason is classified into
ResetCounter(reason) ==
    IF reason \in {StreamConnectionTermination, StreamConnectionFailed}
    THEN "UpstreamRequestFailureEject"
    ELSE IF reason = StreamLocalReset THEN "UpstreamRequestLocalReset"
    ELSE "UpstreamRequestRemoteReset"

ClassifiedReasons ==
    {StreamConnectionTermination, StreamConnectionFailed, StreamLocalReset,
     StreamRemoteReset}

C13_CloseOnlyCloses ==
    [][/\ CloseCheck =>
             /\ pc'[Closer] = IF activeClient # Nil THEN "close_use" ELSE "idle"
             /\ UNCHANGED <<connClosed, closeFault>>
       /\ (CloseUse /\ activeClient # Nil) => connClosed' /\ UNCHANGED closeFault
       /\ (CloseCheck \/ CloseUse) =>
             UNCHANGED <<activeClient, acHist, hostStats, clusterStats, requestsCur,
                         totalStream, closeWithActiveReq, openStreams, listener,
                         connState>>
       /\ (activeClient # Nil /\ activeClient' = Nil) =>
             pc[Conn] = "evt_clear" /\ pc'[Conn] = "idle"]_vars

C13_Witness ==
    /\ connClosed
    /\ pc[Closer] = "idle"
    /\ ~closeFault
    /\ activeClient = AC
    /\ connState = "connected"

\* ------------------------------------------------------------------- C14
\* C14: the keep-alive listener sends exactly one keep-alive probe for each
\* OnReadTimeout event it receives and none for any other connection event,
\* and it changes neither the pool's state nor any counter
C14_KeepAliveProbes ==
    /\ [](probes <= kaReceived /\ (keepAlive = "nil" => kaReceived = 0))
    /\ [][\A event \in ConnectionEvents :
             KeepAliveOnEvent(event) =>
                 /\ probes' = IF event = OnReadTimeout THEN probes + 1 ELSE probes
                 /\ UNCHANGED <<activeClient, acHist, mux, pc, acRet, connState,
                                connClosed, closeWithActiveReq, totalStream,
                                hostStats, clusterStats, requestsCur, openStreams,
                                listener, keepAlive>>]_vars

C14_Witness ==
    /\ keepAlive = "started"
    /\ kaReceived = 2
    /\ probes = 1
    /\ activeClient = AC

\* ------------------------------------------------------------------- C15
\* the constructor has returned, the connection's terminal event has been
\* handled, and no stream is open or being created
Quiescent ==
    /\ pc[Ctor] = "done"
    /\ TerminalDone
    /\ openStreams = 0
    /\ \A c \in Callers : pc[c] = "idle"

\* C15: no gauge is leaked: once the connection has received a terminal event
\* and every created stream has been destroyed, the connection-active and
\* request-active counters of host and cluster and the budget's in-use count
\* are back at 0, their values before the pool was created; connection-active
\* is 1 while an ActiveClient is installed and 0 once the pool is dead
C15_NoGaugeLeak ==
    /\ Quiescent =>
          /\ hostStats["UpstreamConnectionActive"] = 0
          /\ clusterStats["UpstreamConnectionActive"] = 0
          /\ hostStats["UpstreamRequestActive"] = 0
          /\ clusterStats["UpstreamRequestActive"] = 0
          /\ requestsCur = 0
    /\ activeClient = AC =>
          /\ hostStats["UpstreamConnectionActive"] = 1
          /\ clusterStats["UpstreamConnectionActive"] = 1

\* ------------------------------------------------------------------- C16
\* connection-total and connection-active of host and cluster all equal n
ConnectionCounted(n) ==
    /\ hostStats["UpstreamConnectionTotal"] = n
    /\ hostStats["UpstreamConnectionActive"] = n
    /\ clusterStats["UpstreamConnectionTotal"] = n
    /\ clusterStats["UpstreamConnectionActive"] = n

\* C16: a successful construction connects first, then adds exactly 1 to the
\* connection-total and connection-active counters of host and cluster, and
\* only then publishes the ActiveClient, holding the mutex; so whenever a
\* client is installed or Active() has returned true connection-total is 1,
\* and over the pool's life at most one connection is created and at most one
\* ActiveClient is published
C16_ConstructionOrder ==
    /\ connectAttempts <= 1
    /\ pc[Ctor] \in {"start", "connect"} => connectResult = "none" /\ connectAttempts = 0
    /\ pc[Ctor] \in {"start", "connect", "stats"} => ConnectionCounted(0)
    /\ pc[Ctor] \in {"stats", "lock", "publish"} => connectResult = "ok"
    /\ pc[Ctor] \in {"lock", "publish"} => ConnectionCounted(1)
    /\ pc[Ctor] \in {"start", "connect", "stats", "lock", "publish"} =>
          activeClient = Nil /\ acHist = "never" /\ activeRet # "true"
    /\ pc[Ctor] = "publish" => mux = Ctor
    /\ (activeClient = AC \/ activeRet = "true") =>
          /\ connectResult = "ok"
          /\ hostStats["UpstreamConnectionTotal"] = 1
          /\ clusterStats["UpstreamConnectionTotal"] = 1
    /\ connectResult = "error" => ConnectionCounted(0) /\ acHist = "never"

C16_Witness ==
    /\ pc[Ctor] = "done"
    /\ activeClient = AC
    /\ activeRet = "true"
    /\ ConnectionCounted(1)

\* ------------------------------------------------------------------- C17
\* C17: with callers running NewStream concurrently against a budget of
\* capacity MaxRequests, the budget's in-use count and the request-active
\* counters never exceed MaxRequests
C17_BudgetCeiling ==
    /\ requestsCur <= MaxRequests
    /\ hostStats["UpstreamRequestActive"] <= MaxRequests
    /\ clusterStats["UpstreamRequestActive"] <= MaxRequests

\* ------------------------------------------------------------------- C18
\* onConnectionEvent has cleared the field for a terminal event, after the
\* constructor had returned
DeadPool == TerminalDone /\ pc[Ctor] = "done" /\ activeClient = Nil

\* C18: no stream is opened on a dead pool: after onConnectionEvent has
\* cleared activeClient no call takes a request-active or budget unit, counts
\* or opens a stream, or invokes OnReady, also when its snapshot was taken
\* before the event
C18_NoStreamOnDeadPool ==
    [][DeadPool =>
          /\ listener'[RDY] = listener[RDY]
          /\ requestsCur' <= requestsCur
          /\ hostStats'["UpstreamRequestActive"] <= hostStats["UpstreamRequestActive"]
          /\ totalStream' = totalStream
          /\ openStreams' <= openStreams]_vars

\* ------------------------------------------------------------------- C19
\* C19: Close() never dereferences a nil activeClient: the client it calls
\* client.Close() on is the non-nil one its nil check observed, whatever
\* onConnectionEvent or the constructor write in between
C19_CloseNeverFaults == ~closeFault

\* ------------------------------------------------------------------- C20
\* callbacks made so far on the listeners of all calls
Callbacks == listener[CF] + listener[OV] + listener[RDY]

\* callers that have opened their stream and are about to invoke OnReady
AtReady == Cardinality({c \in Callers : pc[c] = "ns_ready"})

\* callers that have counted their stream and are about to open it
AtOpen == Cardinality({c \in Callers : pc[c] = "ns_open"})

\* streams destroyed so far
Destroyed ==
    hostStats["UpstreamRequestTotal"] - hostStats["UpstreamRequestActive"]

\* C20: every NewStream call makes exactly one callback, OnReady or OnFailure,
\* once; OnFailure carries only ConnectionFailure or Overflow and a nil host,
\* OnReady carries the pool's host; and OnReady is invoked only after the
\* call's counters, totalStream and budget unit have been taken and its
\* stream opened with the ActiveClient as listener
C20_OneCallbackPerCall ==
    /\ Callbacks = Completed
    /\ \A l \in ListenerCalls \ {CF, OV, RDY} : listener[l] = 0
    /\ totalStream = listener[RDY] + AtReady + AtOpen
    /\ hostStats["UpstreamRequestTotal"] = totalStream
    /\ clusterStats["UpstreamRequestTotal"] = totalStream
    /\ openStreams + Destroyed = listener[RDY] + AtReady
    /\ requestsCur = openStreams + AtOpen

C20_Witness ==
    /\ calls = 2
    /\ Completed = 2
    /\ listener[RDY] = 1
    /\ listener[CF] + listener[OV] = 1

\* ------------------------------------------------------------------- C21
\* C21: a keep-alive probe is constructed, registered and started only after
\* a successful connect and only when the construction ctx carries a
\* sub-protocol byte; it is never started on a failed connect, and a pool
\* created by NewConnPool, whose init passes a background ctx, has no
\* keep-alive probe in any state (and so none ever receives an event or
\* sends a probe)
C21_KeepAliveOnlyWithSubProtocol ==
    /\ keepAlive = "started" =>
          /\ ctxSubProtocol
          /\ connectResult = "ok"
          /\ pc[Ctor] \in {"lock", "publish", "init_store", "done"}
    /\ connectResult = "error" => keepAlive = "nil"
    /\ ~ctxSubProtocol => keepAlive = "nil" /\ kaReceived = 0 /\ probes = 0

C21_Witness ==
    /\ ~ctxSubProtocol
    /\ pc[Ctor] = "done"
    /\ connectResult = "ok"
    /\ activeClient = AC
    /\ activeRet = "true"
    /\ keepAlive = "nil"

====
